---- MODULE Spec2Model ----
(***************************************************************************)
(* Model of the prediction / persistence pipeline of the AI monitoring     *)
(* system: the model scorer (services/model_service.py), its dependency    *)
(* wiring (api/dependencies.py, api/main.py), the scoring endpoint         *)
(* (api/routes/predict.py), the storage manager (storage/database.py), the *)
(* prediction repository (repositories/prediction_repository.py) and the   *)
(* drift engine (services/monitoring_service.py, monitoring/drift.py).     *)
(*                                                                         *)
(* Feature names are modelled by their rank in lexicographic order         *)
(* (1 < 2 < 3 ...), so Python's sorted() on names is ascending order on    *)
(* ranks.  A feature schema is a sequence of names in artifact order,      *)
(* which need not be sorted.  Probabilities are in percent (0..100).       *)
(***************************************************************************)
EXTENDS Integers, Sequences, FiniteSets, TLC

\* ------------------------------------------------------------------ bounds
NumNames == 2
MaxValue == 1
MaxSchemaLen == 2
MaxRows == 2
NumThreads == 2
MaxAbandoned == 1
MaxStored == 3
MaxStamp == 2
MinRecords == 2
TicksPerDay == 2
MaxClock == 3
MaxDays == 1
MaxId == 4

Threads == 1..NumThreads

Names == 1..NumNames
\* -1 stands for a value the estimator cannot coerce to a number
Values == (-1)..MaxValue

VARIABLES
    disk,      \* the two artifacts on disk: model file and feature-list file
    svc,       \* the ModelService singleton: model, feature_list, _loaded
    arg,       \* the feature mapping of a predict call under study
    last,      \* outcome of the most recent operation (observation of the caller)
    cached,    \* lru_cache of get_model_service holds a result
    app,       \* application lifecycle: "init", "serving", "failed"
    storage,   \* the database file can be opened and written: "up" / "down"
    gmgr,      \* the global _db_manager: 0 for None, else the instance held
    nrows,     \* number of rows of live_predictions
    resp,      \* the HTTP response of the most recent request
    tpc,       \* per worker thread: its position in a ModelService call
    tloc,      \* per worker thread: the call it runs and how the last one ended
    dpc,       \* per worker thread: its position in a storage call
    dloc,      \* per worker thread: the storage call it runs and its outcome
    made,      \* number of DatabaseManager instances constructed
    open,      \* per worker thread: connections it has opened and not closed
    abandoned, \* open connections owned by a generator nobody will resume
    rows,      \* the committed rows of live_predictions, in rowid order
    nextid,    \* the id AUTOINCREMENT gives the next inserted row
    rres,      \* the most recent repository call: operation, arguments, result
    clock,     \* the reading of the UTC clock, in ticks since the first day
    ref,       \* the reference dataset artifact
    dres,      \* the most recent detect_drift call and its result
    artifacts  \* the two drift artifacts on disk, each by the run that wrote it

scorerVars == <<disk, svc>>
callVars == <<arg, last>>
apiVars == <<cached, app, storage, gmgr, nrows, resp>>
concVars == <<tpc, tloc>>
dbVars == <<dpc, dloc, made, open, abandoned>>
repoVars == <<rows, nextid, rres, clock>>
driftVars == <<ref, dres, artifacts>>
vars == <<disk, svc, arg, last, cached, app, storage, gmgr, nrows, resp,
          tpc, tloc, dpc, dloc, made, open, abandoned, rows, nextid, rres,
          clock, ref, dres, artifacts>>

\* ----------------------------------------------------------- sequences
RECURSIVE SeqsUpTo(_, _)
SeqsUpTo(S, n) ==
    IF n = 0 THEN {<<>>}
    ELSE LET shorter == SeqsUpTo(S, n - 1)
         IN shorter \cup {Append(s, x) : s \in {t \in shorter : Len(t) = n - 1}, x \in S}

Range(s) == {s[i] : i \in 1..Len(s)}

MinOf(S) == CHOOSE x \in S : \A y \in S : x <= y

\* Python sorted() of a set of names
RECURSIVE Sorted(_)
Sorted(S) == IF S = {} THEN <<>> ELSE <<MinOf(S)>> \o Sorted(S \ {MinOf(S)})

\* ----------------------------------------------------------- artifacts
NoList == [kind |-> "none", items |-> <<>>]
ListOf(s) == [kind |-> "list", items |-> s]

\* feature schemas the training pipeline can write: the column names of a
\* data frame, in column order, without repetition
Schemas ==
    {s \in SeqsUpTo(Names, MaxSchemaLen) :
        Len(s) > 0 /\ \A i, j \in 1..Len(s) : s[i] = s[j] => i = j}

\* contents the feature-list file can have: absent, not JSON, JSON that is
\* not a list, or a JSON list (possibly empty)
FeatureFiles ==
    {[kind |-> k, items |-> <<>>] : k \in {"missing", "badjson", "notalist"}}
    \cup {ListOf(s) : s \in Schemas \cup {<<>>}}

\* contents the model file can have
ModelFiles == {"missing", "corrupt", "model"}

\* feature mappings a caller can pass to predict: any subset of the names
Inputs == UNION {[K -> Values] : K \in SUBSET Names}

\* ----------------------------------------------------------- the estimator
RECURSIVE Weighted(_, _)
Weighted(vec, i) == IF i > Len(vec) THEN 0 ELSE i * vec[i] + Weighted(vec, i + 1)

\* the fitted estimator: a fixed function of the positional vector it is
\* given; it raises on a value it cannot coerce
ModelRaises(vec) == \E i \in 1..Len(vec) : vec[i] < 0
ModelPredict(vec) == Weighted(vec, 1) % 2
ModelPredictProba(vec) == IF 10 * Weighted(vec, 1) > 100 THEN 100 ELSE 10 * Weighted(vec, 1)

\* ----------------------------------------------------------- ModelService
NewService == [model |-> "None", feature_list |-> NoList, loaded |-> FALSE]

IsLoaded(s) == s.loaded /\ s.model # "None" /\ s.feature_list.kind # "none"

LoadRes(s, outcome, reads) == [svc |-> s, outcome |-> outcome, reads |-> reads]

\* mutant: load_model without the early return on _loaded
LoadModelNoGuard(s, d) ==
    IF d.model = "missing" \/ d.features.kind = "missing" \/ d.model = "corrupt"
    THEN LoadRes(s, "ModelLoadError", 0)
    ELSE IF d.features.kind = "list" /\ Len(d.features.items) > 0
         THEN LoadRes([model |-> d.model, feature_list |-> d.features, loaded |-> TRUE], "ok", 2)
         ELSE LoadRes([s EXCEPT !.model = d.model], "ModelLoadError", 2)

\* load_model as a whole: the service after the call, ok / ModelLoadError,
\* and how many artifact files were read
LoadModelOn(s, d) ==
    IF s.loaded THEN LoadRes(s, "ok", 0)
    ELSE IF d.model = "missing" THEN LoadRes(s, "ModelLoadError", 0)
    ELSE IF d.features.kind = "missing" THEN LoadRes(s, "ModelLoadError", 0)
    ELSE IF d.model = "corrupt" THEN LoadRes(s, "ModelLoadError", 1)
    ELSE LET s1 == [s EXCEPT !.model = d.model]
         IN IF d.features.kind = "badjson" THEN LoadRes(s1, "ModelLoadError", 2)
            ELSE LET s2 == [s1 EXCEPT !.feature_list =
                               [kind |-> d.features.kind, items |-> d.features.items]]
                 IN IF d.features.kind # "list" THEN LoadRes(s2, "ModelLoadError", 2)
                    ELSE IF Len(d.features.items) = 0 THEN LoadRes(s2, "ModelLoadError", 2)
                    ELSE LoadRes([s2 EXCEPT !.loaded = TRUE], "ok", 2)

\* mutant: reload_model that clears the state and does not load again
ReloadModelClearOnly(s, d) == LoadRes(NewService, "ok", 0)

\* reload_model: clear the three fields, then load_model
ReloadModelOn(s, d) == LoadModelOn(NewService, d)

\* ----------------------------------------------------------- predict
\* mutant: the missing names reported in schema order instead of sorted
MissingInSchemaOrder(fl, f) == SelectSeq(fl, LAMBDA n : n \notin DOMAIN f)

\* sorted(set(feature_list) - set(df.columns))
MissingFeatures(fl, f) == Sorted(Range(fl) \ DOMAIN f)

\* sorted(set(df.columns) - set(feature_list)), the names in the warning
ExtraFeatures(fl, f) == Sorted(DOMAIN f \ Range(fl))

\* mutant: the frame is handed to the estimator without selecting columns
AllColumns(fl, f) == Sorted(DOMAIN f)

\* df[self.feature_list]: the columns the estimator receives
SelectColumns(fl, f) == fl

RowOf(cols, f) == [i \in 1..Len(cols) |-> f[cols[i]]]

PredRes(outcome, missing, extra, invoked, cols, prediction, probability) ==
    [outcome |-> outcome, missing |-> missing, extra |-> extra, invoked |-> invoked,
     cols |-> cols, prediction |-> prediction, probability |-> probability]

\* mutant: predict without the is_loaded check (reads whatever is in memory)
PredictUnchecked(s, f) ==
    LET fl == s.feature_list.items
    IN IF Range(fl) \ DOMAIN f # {}
       THEN PredRes("PredictionError", MissingFeatures(fl, f), <<>>, FALSE, <<>>, -1, -1)
       ELSE PredRes("ok", <<>>, ExtraFeatures(fl, f), TRUE, fl,
                    ModelPredict(RowOf(fl, f)), ModelPredictProba(RowOf(fl, f)))

\* predict as a whole on service state s with feature mapping f
PredictOn(s, f) ==
    IF ~IsLoaded(s)
    THEN PredRes("ModelLoadError", <<>>, <<>>, FALSE, <<>>, -1, -1)
    ELSE LET fl == s.feature_list.items
         IN IF Range(fl) \ DOMAIN f # {}
            THEN PredRes("PredictionError", MissingFeatures(fl, f), <<>>, FALSE, <<>>, -1, -1)
            ELSE LET cols == SelectColumns(fl, f)
                     row == RowOf(cols, f)
                 IN IF ModelRaises(row)
                    THEN PredRes("PredictionError", <<>>, ExtraFeatures(fl, f), TRUE, cols, -1, -1)
                    ELSE PredRes("ok", <<>>, ExtraFeatures(fl, f), TRUE, cols,
                                 ModelPredict(row), ModelPredictProba(row))

\* get_feature_list: a copy of the schema, or ModelLoadError
GetFeatureListOn(s) ==
    IF ~IsLoaded(s) THEN [outcome |-> "ModelLoadError", list |-> <<>>]
    ELSE [outcome |-> "ok", list |-> s.feature_list.items]

\* ----------------------------------------------------------- observations
Obs(op, outcome) ==
    [op |-> op, outcome |-> outcome, flag |-> FALSE, list |-> <<>>, extra |-> <<>>,
     invoked |-> FALSE, cols |-> <<>>, prediction |-> -1, probability |-> -1, reads |-> 0]

ObsPredict(r) ==
    [Obs("predict", r.outcome) EXCEPT !.list = r.missing, !.extra = r.extra,
        !.invoked = r.invoked, !.cols = r.cols, !.prediction = r.prediction,
        !.probability = r.probability]

\* ----------------------------------------------------------- initial state
NoArg == [n \in {} |-> 0]

\* inputs used where the scorer's state machine is explored: every key set,
\* with one value for all keys (a coercible one or the non-coercible one)
UniformInputs == {[k \in K |-> v] : K \in SUBSET Names, v \in {-1, MaxValue}}

NoResp == [op |-> "none", status |-> 0, stage |-> "none", saved |-> "no",
           prediction |-> -1, probability |-> -1]

NoCall == [op |-> "none", outcome |-> "none", torn |-> FALSE]

\* no worker thread is part of the run
ThreadsIdle ==
    /\ tpc = [t \in Threads |-> "idle"]
    /\ tloc = [t \in Threads |-> NoCall]
    /\ dpc = [t \in Threads |-> "idle"]
    /\ dloc = [t \in Threads |-> NoCall]
    /\ made = 0
    /\ open = [t \in Threads |-> 0]
    /\ abandoned = 0

\* an optional argument left out (Python None)
None == -1

NoQuery == [limit |-> None, offset |-> 0, start |-> None, end |-> None]

NoRow == [id |-> 0, timestamp |-> None, features |-> <<>>, prediction |-> 0,
          probability |-> 0, latency_ms |-> 0]

NoRepoCall == [op |-> "none", outcome |-> "none", stage |-> "none", args |-> NoQuery,
               saved |-> NoRow, id |-> 0, records |-> <<>>]

NoReference == [kind |-> "missing", columns |-> <<>>]

\* what may fail around the comparison: the store, the report computation,
\* the writing of the two artifacts (directory, HTML, JSON)
NoFaults == [db |-> FALSE, run |-> FALSE, write |-> "none"]

\* the first failure decides how the call ends, so one failure per call
DriftFaults ==
    {NoFaults, [NoFaults EXCEPT !.db = TRUE], [NoFaults EXCEPT !.run = TRUE]}
    \cup {[NoFaults EXCEPT !.write = w] : w \in {"mkdir", "html", "json"}}

\* a finished detect_drift: how it ended, the error's message in parts, and
\* what was done before it ended
DriftCall(outcome, kind) ==
    [op |-> "detect_drift", outcome |-> outcome, kind |-> kind, wrapped |-> FALSE,
     limit |-> None, faults |-> NoFaults, fetched |-> None, count |-> 0,
     minimum |-> 0, missing |-> <<>>, extra |-> <<>>, columns |-> <<>>,
     ran |-> FALSE, html |-> FALSE, json |-> FALSE]

NoDriftCall == [DriftCall("none", "none") EXCEPT !.op = "none"]

\* monitoring_report.html and monitoring_summary.json: "absent", "current"
\* when written by the last run that reached the comparison, "older" when
\* written by a run before that one
NoArtifacts == [html |-> "absent", json |-> "absent"]

\* the repository and the drift engine are not part of the run
RepoIdle ==
    /\ rows = <<>>
    /\ nextid = 1
    /\ rres = NoRepoCall
    /\ clock = 0
    /\ ref = NoReference
    /\ dres = NoDriftCall
    /\ artifacts = NoArtifacts

\* the API is not part of the run
ApiIdle ==
    /\ cached = FALSE
    /\ app = "init"
    /\ storage = "up"
    /\ gmgr = 0
    /\ nrows = 0
    /\ resp = NoResp

Init ==
    /\ disk \in [model : ModelFiles, features : FeatureFiles]
    /\ svc = NewService
    /\ arg = NoArg
    /\ last = Obs("none", "none")
    /\ ApiIdle
    /\ ThreadsIdle
    /\ RepoIdle

\* ----------------------------------------------------------- operations
\* the training pipeline (or an operator) rewrites or removes an artifact
ArtifactChange ==
    /\ \/ \E m \in ModelFiles : disk' = [disk EXCEPT !.model = m]
       \/ \E ff \in FeatureFiles : disk' = [disk EXCEPT !.features = ff]
    /\ UNCHANGED <<svc, callVars, apiVars, concVars, dbVars, repoVars, driftVars>>

LoadModel ==
    LET r == LoadModelOn(svc, disk)
    IN /\ svc' = r.svc
       /\ last' = [Obs("load_model", r.outcome) EXCEPT !.reads = r.reads]
       /\ UNCHANGED <<disk, arg, apiVars, concVars, dbVars, repoVars, driftVars>>

\* the observation also keeps what is_loaded() and the schema were before
ReloadModel ==
    LET r == ReloadModelOn(svc, disk)
    IN /\ svc' = r.svc
       /\ last' = [Obs("reload_model", r.outcome) EXCEPT !.reads = r.reads,
                     !.flag = IsLoaded(svc), !.list = svc.feature_list.items]
       /\ UNCHANGED <<disk, arg, apiVars, concVars, dbVars, repoVars, driftVars>>

IsLoadedCall ==
    /\ last' = [Obs("is_loaded", "ok") EXCEPT !.flag = IsLoaded(svc)]
    /\ UNCHANGED <<scorerVars, arg, apiVars, concVars, dbVars, repoVars, driftVars>>

Predict(f) ==
    /\ last' = ObsPredict(PredictOn(svc, f))
    /\ UNCHANGED <<scorerVars, arg, apiVars, concVars, dbVars, repoVars, driftVars>>

GetFeatureList ==
    LET r == GetFeatureListOn(svc)
    IN /\ last' = [Obs("get_feature_list", r.outcome) EXCEPT !.list = r.list]
       /\ UNCHANGED <<scorerVars, arg, apiVars, concVars, dbVars, repoVars, driftVars>>

Next ==
    \/ ArtifactChange
    \/ LoadModel
    \/ ReloadModel
    \/ IsLoadedCall
    \/ \E f \in UniformInputs : Predict(f)
    \/ GetFeatureList

Spec == Init /\ [][Next]_vars

\* ------------------------------------------------- predict as a function
\* service states load_model leaves Loaded, and the states it leaves
\* not Loaded (never loaded, or a load that failed part-way)
LoadedServices ==
    {[model |-> "model", feature_list |-> ListOf(s), loaded |-> TRUE] : s \in Schemas}

UnloadedServices ==
    {[model |-> m, feature_list |-> fl, loaded |-> FALSE] :
        m \in {"None", "model"},
        fl \in {NoList, ListOf(<<>>), [kind |-> "notalist", items |-> <<>>]}}

InitPredict ==
    /\ disk = [model |-> "model", features |-> ListOf(<<>>)]
    /\ svc \in LoadedServices \cup UnloadedServices
    /\ arg \in Inputs
    /\ last = Obs("none", "none")
    /\ ApiIdle
    /\ ThreadsIdle
    /\ RepoIdle

\* the call under study, and the same call with the non-schema keys removed
PredictArg ==
    /\ last.op = "none"
    /\ last' = ObsPredict(PredictOn(svc, arg))
    /\ UNCHANGED <<scorerVars, arg, apiVars, concVars, dbVars, repoVars, driftVars>>

Restricted(s, f) == [k \in DOMAIN f \cap Range(s.feature_list.items) |-> f[k]]

PredictRestricted ==
    /\ last.op = "predict"
    /\ last' = [ObsPredict(PredictOn(svc, Restricted(svc, arg))) EXCEPT !.op = "predict_restricted"]
    /\ UNCHANGED <<scorerVars, arg, apiVars, concVars, dbVars, repoVars, driftVars>>

NextPredict == PredictArg \/ PredictRestricted

SpecPredict == InitPredict /\ [][NextPredict]_vars

\* ------------------------------------------------------------- the API
\* fields of the Transaction request model: the request carries exactly
\* these names, each with a float (the last name of Names stands for a
\* schema name the request model does not have, and the name after it for a
\* field of the request model that no explored schema lists)
TxFields == (Names \ {NumNames}) \cup {NumNames + 1}
Transactions == [TxFields -> 0..MaxValue]

\* get_model_service (lru_cache): a cached result is returned untouched;
\* otherwise load when not loaded, and cache only a normal return
GetModelServiceOn(s, d, c) ==
    IF c THEN [svc |-> s, outcome |-> "ok", reads |-> 0, cached |-> TRUE]
    ELSE IF IsLoaded(s) THEN [svc |-> s, outcome |-> "ok", reads |-> 0, cached |-> TRUE]
    ELSE LET r == LoadModelOn(s, d)
         IN [svc |-> r.svc, outcome |-> r.outcome, reads |-> r.reads,
             cached |-> (r.outcome = "ok")]

\* get_database_manager: the global instance, constructed on first use;
\* DatabaseManager() runs _initialize_schema, which raises DatabaseError when
\* the database cannot be opened or written
GetDatabaseManagerOn(g, st) ==
    IF g # 0 THEN [gmgr |-> g, outcome |-> "ok"]
    ELSE IF st = "up" THEN [gmgr |-> 1, outcome |-> "ok"]
    ELSE [gmgr |-> 0, outcome |-> "DatabaseError"]

\* save_prediction: one INSERT in a scoped connection
SavePredictionOn(n, st) ==
    IF st = "up" THEN [nrows |-> n + 1, outcome |-> "ok"]
    ELSE [nrows |-> n, outcome |-> "DatabaseError"]

InitApi ==
    /\ disk \in [model : ModelFiles, features : FeatureFiles]
    /\ svc = NewService
    /\ arg = NoArg
    /\ last = Obs("none", "none")
    /\ cached = FALSE
    /\ app = "init"
    /\ storage \in {"up", "down"}
    /\ gmgr = 0
    /\ nrows = 0
    /\ resp = NoResp
    /\ ThreadsIdle
    /\ RepoIdle

\* lifespan startup: get_model_service() then load_model(); any exception
\* aborts the startup
Lifespan ==
    /\ app = "init"
    /\ LET r == GetModelServiceOn(svc, disk, cached)
           l == LoadModelOn(r.svc, disk)
       IN IF r.outcome # "ok"
          THEN /\ svc' = r.svc
               /\ cached' = r.cached
               /\ app' = "failed"
               /\ last' = [Obs("lifespan", r.outcome) EXCEPT !.reads = r.reads]
          ELSE /\ svc' = l.svc
               /\ cached' = r.cached
               /\ app' = IF l.outcome = "ok" THEN "serving" ELSE "failed"
               /\ last' = [Obs("lifespan", l.outcome) EXCEPT !.reads = r.reads + l.reads]
    /\ UNCHANGED <<disk, arg, storage, gmgr, nrows, resp, concVars, dbVars, repoVars, driftVars>>

\* the database file becomes unusable (removed directory, permissions, full
\* or locked disk) or usable again
StorageChange ==
    /\ storage' = IF storage = "up" THEN "down" ELSE "up"
    /\ UNCHANGED <<scorerVars, callVars, cached, app, gmgr, nrows, resp, concVars, dbVars, repoVars, driftVars>>

Response(status, stage, saved, r) ==
    [op |-> "predict", status |-> status, stage |-> stage, saved |-> saved,
     prediction |-> r.prediction, probability |-> r.probability]

\* POST /predict: the two dependencies are resolved in parameter order, then
\* the handler scores, saves best-effort and answers
PredictRequest(tx) ==
    /\ app = "serving"
    /\ nrows < MaxRows
    /\ LET ms == GetModelServiceOn(svc, disk, cached)
           db == GetDatabaseManagerOn(gmgr, storage)
           r  == PredictOn(ms.svc, tx)
           sv == SavePredictionOn(nrows, storage)
       IN /\ svc' = ms.svc
          /\ cached' = ms.cached
          /\ arg' = tx
          /\ IF ms.outcome # "ok"
             THEN /\ resp' = Response(500, "dependency", "no", PredictOn(NewService, tx))
                  /\ last' = Obs("predict_request", ms.outcome)
                  /\ UNCHANGED <<gmgr, nrows>>
             ELSE IF db.outcome # "ok"
             THEN /\ resp' = Response(500, "dependency", "no", PredictOn(NewService, tx))
                  /\ last' = Obs("predict_request", db.outcome)
                  /\ UNCHANGED <<gmgr, nrows>>
             ELSE /\ gmgr' = db.gmgr
                  /\ last' = Obs("predict_request", r.outcome)
                  /\ IF r.outcome = "ModelLoadError"
                     THEN /\ resp' = Response(503, "handler", "no", r)
                          /\ UNCHANGED nrows
                     ELSE IF r.outcome = "PredictionError"
                     THEN /\ resp' = Response(500, "handler", "no", r)
                          /\ UNCHANGED nrows
                     ELSE /\ nrows' = sv.nrows
                          /\ resp' = Response(200, "handler",
                                        IF sv.outcome = "ok" THEN "yes" ELSE "failed", r)
    /\ UNCHANGED <<disk, app, storage, concVars, dbVars, repoVars, driftVars>>

NextApi ==
    \/ Lifespan
    \/ StorageChange
    \/ \E tx \in Transactions : PredictRequest(tx)

SpecApi == InitApi /\ [][NextApi]_vars

\* ------------------------------------- ModelService under worker threads
\* Each step below is one read or one assignment of a field of the shared
\* singleton; the methods take no lock on the instance (the class lock only
\* guards the construction in get_instance), so steps of different threads
\* interleave freely.
Call(op, outcome, torn) == [op |-> op, outcome |-> outcome, torn |-> torn]

InitConc ==
    /\ disk \in [model : {"model"}, features : {ListOf(q) : q \in Schemas}]
    /\ svc = NewService
    /\ arg = [n \in Names |-> MaxValue]
    /\ last = Obs("none", "none")
    /\ ApiIdle
    /\ ThreadsIdle
    /\ RepoIdle

ConcFrame == UNCHANGED <<disk, callVars, app, storage, gmgr, nrows, resp, dbVars, repoVars, driftVars>>

Goto(t, pc) == tpc' = [tpc EXCEPT ![t] = pc]

\* the call of thread t returns or raises
Finish(t, outcome, torn) ==
    /\ tpc' = [tpc EXCEPT ![t] = "idle"]
    /\ tloc' = [tloc EXCEPT ![t] = Call(tloc[t].op, outcome, torn)]

Begin(t, op, pc) ==
    /\ tpc[t] = "idle"
    /\ tpc' = [tpc EXCEPT ![t] = pc]
    /\ tloc' = [tloc EXCEPT ![t] = Call(op, "running", FALSE)]
    /\ UNCHANGED <<svc, cached>>
    /\ ConcFrame

StartLoadModel(t) == Begin(t, "load_model", "load_check")
StartReloadModel(t) == Begin(t, "reload_model", "reload_clear_loaded")
StartPredict(t) == Begin(t, "predict", "predict_check")
StartGetFeatureList(t) == Begin(t, "get_feature_list", "gfl_check")
StartGetModelService(t) == Begin(t, "get_model_service", "gms_cache")

\* is_loaded() called on its own
ThreadIsLoaded(t) ==
    /\ tpc[t] = "idle"
    /\ tloc' = [tloc EXCEPT ![t] = Call("is_loaded", IF IsLoaded(svc) THEN "true" ELSE "false", FALSE)]
    /\ UNCHANGED <<svc, cached, tpc>>
    /\ ConcFrame

\* load_model, `if self._loaded: return`; the artifacts exist, so the two
\* exists() checks pass and the load sequence begins
LoadCheck(t) ==
    /\ tpc[t] = "load_check"
    /\ IF svc.loaded
       THEN /\ Finish(t, "ok", FALSE)
            /\ cached' = (cached \/ tloc[t].op = "get_model_service")
       ELSE /\ Goto(t, "load_read_model")
            /\ UNCHANGED <<tloc, cached>>
    /\ UNCHANGED svc
    /\ ConcFrame

\* self.model = joblib.load(...)
LoadReadModel(t) ==
    /\ tpc[t] = "load_read_model"
    /\ svc' = [svc EXCEPT !.model = disk.model]
    /\ Goto(t, "load_read_features")
    /\ UNCHANGED <<tloc, cached>>
    /\ ConcFrame

\* self.feature_list = json.load(f)
LoadReadFeatures(t) ==
    /\ tpc[t] = "load_read_features"
    /\ svc' = [svc EXCEPT !.feature_list = disk.features]
    /\ Goto(t, "load_set_loaded")
    /\ UNCHANGED <<tloc, cached>>
    /\ ConcFrame

\* self._loaded = True, and the return (into the lru_cache when the load was
\* started by get_model_service)
LoadSetLoaded(t) ==
    /\ tpc[t] = "load_set_loaded"
    /\ svc' = [svc EXCEPT !.loaded = TRUE]
    /\ Finish(t, "ok", FALSE)
    /\ cached' = (cached \/ tloc[t].op = "get_model_service")
    /\ ConcFrame

\* reload_model: self._loaded = False
ReloadClearLoaded(t) ==
    /\ tpc[t] = "reload_clear_loaded"
    /\ svc' = [svc EXCEPT !.loaded = FALSE]
    /\ Goto(t, "reload_clear_model")
    /\ UNCHANGED <<tloc, cached>>
    /\ ConcFrame

\* reload_model: self.model = None
ReloadClearModel(t) ==
    /\ tpc[t] = "reload_clear_model"
    /\ svc' = [svc EXCEPT !.model = "None"]
    /\ Goto(t, "reload_clear_features")
    /\ UNCHANGED <<tloc, cached>>
    /\ ConcFrame

\* reload_model: self.feature_list = None, then self.load_model()
ReloadClearFeatures(t) ==
    /\ tpc[t] = "reload_clear_features"
    /\ svc' = [svc EXCEPT !.feature_list = NoList]
    /\ Goto(t, "load_check")
    /\ UNCHANGED <<tloc, cached>>
    /\ ConcFrame

\* predict / get_feature_list: `if not self.is_loaded(): raise ModelLoadError`
LoadedCheck(t, pc, next) ==
    /\ tpc[t] = pc
    /\ IF IsLoaded(svc)
       THEN Goto(t, next) /\ UNCHANGED tloc
       ELSE Finish(t, "ModelLoadError", FALSE)
    /\ UNCHANGED <<svc, cached>>
    /\ ConcFrame

\* a read of self.feature_list after the check: a cleared field makes the
\* statement raise (TypeError / KeyError / AttributeError)
ReadFeatureList(t, pc, next, error) ==
    /\ tpc[t] = pc
    /\ IF svc.feature_list.kind = "none"
       THEN Finish(t, error, TRUE)
       ELSE IF next = "idle" THEN Finish(t, "ok", FALSE)
       ELSE Goto(t, next) /\ UNCHANGED tloc
    /\ UNCHANGED <<svc, cached>>
    /\ ConcFrame

\* a read of self.model after the check
ReadModel(t, pc, next) ==
    /\ tpc[t] = pc
    /\ IF svc.model = "None"
       THEN Finish(t, "PredictionError", TRUE)
       ELSE IF next = "idle" THEN Finish(t, "ok", FALSE)
       ELSE Goto(t, next) /\ UNCHANGED tloc
    /\ UNCHANGED <<svc, cached>>
    /\ ConcFrame

PredictCheck(t) == LoadedCheck(t, "predict_check", "predict_missing")
\* set(self.feature_list) - set(df.columns); the input has every name
PredictMissing(t) == ReadFeatureList(t, "predict_missing", "predict_extra", "PredictionError")
\* set(df.columns) - set(self.feature_list)
PredictExtra(t) == ReadFeatureList(t, "predict_extra", "predict_select", "PredictionError")
\* df[self.feature_list]
PredictSelect(t) == ReadFeatureList(t, "predict_select", "predict_model", "PredictionError")
\* self.model.predict(df)
PredictModel(t) == ReadModel(t, "predict_model", "predict_proba")
\* self.model.predict_proba(df)
PredictProba(t) == ReadModel(t, "predict_proba", "idle")

GetFeatureListCheck(t) == LoadedCheck(t, "gfl_check", "gfl_copy")
\* self.feature_list.copy()
GetFeatureListCopy(t) == ReadFeatureList(t, "gfl_copy", "idle", "AttributeError")

\* get_model_service: lru_cache lookup (the function body runs in every
\* thread that finds the cache empty)
GetModelServiceCache(t) ==
    /\ tpc[t] = "gms_cache"
    /\ IF cached THEN Finish(t, "ok", FALSE) ELSE Goto(t, "gms_check") /\ UNCHANGED tloc
    /\ UNCHANGED <<svc, cached>>
    /\ ConcFrame

\* get_model_service: `if not service.is_loaded(): service.load_model()`
GetModelServiceCheck(t) ==
    /\ tpc[t] = "gms_check"
    /\ IF IsLoaded(svc)
       THEN Finish(t, "ok", FALSE) /\ cached' = TRUE
       ELSE Goto(t, "load_check") /\ UNCHANGED <<tloc, cached>>
    /\ UNCHANGED svc
    /\ ConcFrame

NextConc ==
    \E t \in Threads :
        \/ StartLoadModel(t)
        \/ StartReloadModel(t)
        \/ StartPredict(t)
        \/ StartGetFeatureList(t)
        \/ StartGetModelService(t)
        \/ ThreadIsLoaded(t)
        \/ LoadCheck(t)
        \/ LoadReadModel(t)
        \/ LoadReadFeatures(t)
        \/ LoadSetLoaded(t)
        \/ ReloadClearLoaded(t)
        \/ ReloadClearModel(t)
        \/ ReloadClearFeatures(t)
        \/ PredictCheck(t)
        \/ PredictMissing(t)
        \/ PredictExtra(t)
        \/ PredictSelect(t)
        \/ PredictModel(t)
        \/ PredictProba(t)
        \/ GetFeatureListCheck(t)
        \/ GetFeatureListCopy(t)
        \/ GetModelServiceCache(t)
        \/ GetModelServiceCheck(t)

SpecConc == InitConc /\ [][NextConc]_vars

\* ----------------------------------- the storage manager under threads
\* get_database_manager, DatabaseManager.__init__ / _initialize_schema,
\* DatabaseManager.get_connection (as a `with` scope) and the module-level
\* get_connection().  self._lock is created by __init__ and acquired nowhere.
InitDb ==
    /\ disk = [model |-> "model", features |-> ListOf(<<>>)]
    /\ svc = NewService
    /\ arg = NoArg
    /\ last = Obs("none", "none")
    /\ cached = FALSE
    /\ app = "init"
    /\ storage \in {"up", "down"}
    /\ gmgr = 0
    /\ nrows = 0
    /\ resp = NoResp
    /\ ThreadsIdle
    /\ RepoIdle

DbFrame ==
    UNCHANGED <<scorerVars, callVars, cached, app, storage, nrows, resp, concVars,
                repoVars, driftVars>>

DGoto(t, pc) == dpc' = [dpc EXCEPT ![t] = pc]

DFinish(t, outcome) ==
    /\ dpc' = [dpc EXCEPT ![t] = "idle"]
    /\ dloc' = [dloc EXCEPT ![t] = Call(dloc[t].op, outcome, FALSE)]

DBegin(t, op, pc) ==
    /\ dpc[t] = "idle"
    /\ dpc' = [dpc EXCEPT ![t] = pc]
    /\ dloc' = [dloc EXCEPT ![t] = Call(op, "running", FALSE)]
    /\ UNCHANGED <<gmgr, made, open, abandoned>>
    /\ DbFrame

\* the database file becomes unusable or usable again while threads run
DbStorageChange ==
    /\ storage' = IF storage = "up" THEN "down" ELSE "up"
    /\ UNCHANGED <<scorerVars, callVars, cached, app, gmgr, nrows, resp, concVars, dbVars, repoVars, driftVars>>

StartGetDatabaseManager(t) == DBegin(t, "get_database_manager", "gdm_check")
StartModuleGetConnection(t) == DBegin(t, "get_connection", "gdm_check")
StartScopedConnection(t) == gmgr # 0 /\ DBegin(t, "with_connection", "conn_open")

\* what follows get_database_manager() in the running call
AfterManager(t) == IF dloc[t].op = "get_connection" THEN "gc_enter" ELSE "idle"

\* get_database_manager: `if _db_manager is None: _db_manager = DatabaseManager()`
GdmCheck(t) ==
    /\ dpc[t] = "gdm_check"
    /\ IF gmgr = 0
       THEN DGoto(t, "init_connect") /\ UNCHANGED dloc
       ELSE IF AfterManager(t) = "idle" THEN DFinish(t, "ok")
       ELSE DGoto(t, AfterManager(t)) /\ UNCHANGED dloc
    /\ UNCHANGED <<gmgr, made, open, abandoned>>
    /\ DbFrame

\* sqlite3.connect in a scope: no connection and DatabaseError when it fails
Connect(t, pc, next) ==
    /\ dpc[t] = pc
    /\ IF storage = "up"
       THEN /\ open' = [open EXCEPT ![t] = @ + 1]
            /\ DGoto(t, next)
            /\ UNCHANGED dloc
       ELSE /\ DFinish(t, "DatabaseError")
            /\ UNCHANGED open
    /\ UNCHANGED <<gmgr, made, abandoned>>
    /\ DbFrame

\* a statement on the open connection: on failure the scope rolls back
Statement(t, pc, next) ==
    /\ dpc[t] = pc
    /\ DGoto(t, IF storage = "up" THEN next ELSE "conn_rollback")
    /\ UNCHANGED <<dloc, gmgr, made, open, abandoned>>
    /\ DbFrame

\* _initialize_schema on the new instance (its _initialized is False)
InitConnect(t) == Connect(t, "init_connect", "init_create_table")
InitCreateTable(t) == Statement(t, "init_create_table", "init_create_index")
InitCreateIndex(t) == Statement(t, "init_create_index", "init_commit")
\* conn.commit(); self._initialized = True; then the scope's own commit
InitCommit(t) == Statement(t, "init_commit", "conn_commit")

\* a scope opened by a repository operation or health_check
ConnOpen(t) == Connect(t, "conn_open", "conn_body")

\* the body of the scope: completes, raises, or is cancelled (an exception
\* that is not an Exception, which no except clause of the scope catches)
ConnBody(t) ==
    /\ dpc[t] = "conn_body"
    /\ \E pc \in {"conn_commit", "conn_rollback", "conn_close"} : DGoto(t, pc)
    /\ dloc' = [dloc EXCEPT ![t].outcome =
                   IF dpc'[t] = "conn_close" THEN "cancelled" ELSE @]
    /\ UNCHANGED <<gmgr, made, open, abandoned>>
    /\ DbFrame

\* conn.commit() after the yield
ConnCommit(t) ==
    /\ dpc[t] = "conn_commit"
    /\ IF storage = "up"
       THEN DGoto(t, "conn_close") /\ dloc' = [dloc EXCEPT ![t].outcome = "committed"]
       ELSE DGoto(t, "conn_rollback") /\ UNCHANGED dloc
    /\ UNCHANGED <<gmgr, made, open, abandoned>>
    /\ DbFrame

\* conn.rollback() in an except clause, then DatabaseError is raised from
\* the clause; a rollback that itself raises leaves the clause with the
\* engine's own exception, which no clause of the scope catches
ConnRollback(t) ==
    /\ dpc[t] = "conn_rollback"
    /\ DGoto(t, "conn_close")
    /\ \E rollbackFails \in (IF storage = "up" THEN {FALSE} ELSE BOOLEAN) :
        dloc' = [dloc EXCEPT ![t].outcome =
                    IF rollbackFails THEN "sqlite3.Error" ELSE "DatabaseError"]
    /\ UNCHANGED <<gmgr, made, open, abandoned>>
    /\ DbFrame

\* what the caller of the scope sees: _initialize_schema wraps every
\* Exception as DatabaseError, a bare `with` lets it through as it is
ScopeOutcome(op, outcome) ==
    IF outcome = "committed" THEN "ok"
    ELSE IF op \in {"get_database_manager", "get_connection"} /\ outcome = "sqlite3.Error"
    THEN "DatabaseError"
    ELSE outcome

\* finally: conn.close(); a constructing thread then assigns the global
ConnClose(t) ==
    /\ dpc[t] = "conn_close"
    /\ open' = [open EXCEPT ![t] = @ - 1]
    /\ IF dloc[t].op \in {"get_database_manager", "get_connection"}
          /\ dloc[t].outcome = "committed"
       THEN DGoto(t, "gdm_assign") /\ UNCHANGED dloc
       ELSE DFinish(t, ScopeOutcome(dloc[t].op, dloc[t].outcome))
    /\ UNCHANGED <<gmgr, made, abandoned>>
    /\ DbFrame

\* _db_manager = <the instance just constructed>
GdmAssign(t) ==
    /\ dpc[t] = "gdm_assign"
    /\ made' = made + 1
    /\ gmgr' = made + 1
    /\ IF AfterManager(t) = "idle" THEN DFinish(t, "ok")
       ELSE DGoto(t, AfterManager(t)) /\ dloc' = [dloc EXCEPT ![t].outcome = "running"]
    /\ UNCHANGED <<open, abandoned>>
    /\ DbFrame

\* module get_connection(): manager.get_connection().__enter__() runs the
\* scope up to its yield and returns the connection; the suspended generator
\* is dropped, and nothing in the program resumes or exits it.  A runtime
\* that reclaims by reference counting finalizes it before the call returns
\* (the caller holds a closed connection); any other leaves it suspended
\* with its connection open.
GcEnter(t) ==
    /\ dpc[t] = "gc_enter"
    /\ abandoned < MaxAbandoned
    /\ IF storage = "up"
       THEN \E atOnce \in BOOLEAN :
            IF atOnce
            THEN DFinish(t, "closed") /\ UNCHANGED abandoned
            ELSE DFinish(t, "ok") /\ abandoned' = abandoned + 1
       ELSE /\ DFinish(t, "DatabaseError")
            /\ UNCHANGED abandoned
    /\ UNCHANGED <<gmgr, made, open>>
    /\ DbFrame

\* a suspended generator left behind is finalized when the runtime collects
\* it, or never: GeneratorExit at the yield runs only the finally clause, which closes
\* without commit or rollback
FinalizeGenerator ==
    /\ abandoned > 0
    /\ abandoned' = abandoned - 1
    /\ UNCHANGED <<gmgr, made, open, dpc, dloc>>
    /\ DbFrame

NextDb ==
    \/ DbStorageChange
    \/ FinalizeGenerator
    \/ \E t \in Threads :
        \/ StartGetDatabaseManager(t)
        \/ StartModuleGetConnection(t)
        \/ StartScopedConnection(t)
        \/ GdmCheck(t)
        \/ InitConnect(t)
        \/ InitCreateTable(t)
        \/ InitCreateIndex(t)
        \/ InitCommit(t)
        \/ ConnOpen(t)
        \/ ConnBody(t)
        \/ ConnCommit(t)
        \/ ConnRollback(t)
        \/ ConnClose(t)
        \/ GdmAssign(t)
        \/ GcEnter(t)

SpecDb == InitDb /\ [][NextDb]_vars

\* ------------------------------------------------ the prediction repository
\* timestamps are strings, compared as strings by the engine; they are
\* modelled by their rank in string order, and rank 0 is the empty string
Stamps == 0..MaxStamp

\* `if x:` on an optional string or integer: None, "" and 0 are false
Truthy(x) == x > 0

\* what a caller stores with one record: the feature mapping and the score
SaveArgs ==
    {[features |-> [n \in K |-> MaxValue], prediction |-> p,
      probability |-> 25 + 50 * p, latency_ms |-> 1 + p] :
        K \in {{1}, Names}, p \in {0, 1}}

\* the records explored in the store: one score for each feature mapping
StoredArgs == {a \in SaveArgs : a.prediction = 1 <=> DOMAIN a.features = Names}

\* json.dumps of a feature mapping: the text of its key / value pairs
JsonDumps(f) ==
    LET keys == Sorted(DOMAIN f)
    IN [i \in 1..Len(keys) |-> <<keys[i], f[keys[i]]>>]

\* mutant: only the first pair of the text is read
JsonLoadsFirstPair(text) ==
    [k \in {text[i][1] : i \in 1..Len(text) \cap {1}} |-> text[1][2]]

\* json.loads of such a text: the mapping it denotes
JsonLoads(text) ==
    [k \in {text[i][1] : i \in 1..Len(text)} |->
        text[CHOOSE i \in 1..Len(text) :
                text[i][1] = k /\ \A j \in 1..Len(text) : text[j][1] = k => j <= i][2]]

\* the row INSERT writes
RowOfSave(id, stamp, a) ==
    [id |-> id, timestamp |-> stamp, features |-> JsonDumps(a.features),
     prediction |-> a.prediction, probability |-> a.probability,
     latency_ms |-> a.latency_ms]

\* the dictionary get_predictions builds from a row
RowDict(r) == [r EXCEPT !.features = JsonLoads(@)]

\* mutant: the failed commit leaves the inserted row in the table
SaveRowKeepsInsert(rs, nid, a, stamp, fault) ==
    IF fault \in {"connect", "insert"}
    THEN [rows |-> rs, nextid |-> nid, outcome |-> "DatabaseError", id |-> 0]
    ELSE [rows |-> Append(rs, RowOfSave(nid, stamp, a)), nextid |-> nid + 1,
          outcome |-> IF fault = "none" THEN "ok" ELSE "DatabaseError",
          id |-> IF fault = "none" THEN nid ELSE 0]

\* save_prediction: connect, INSERT, conn.commit(), return lastrowid; a
\* failure at any of the three is rolled back by the scope (or discarded by
\* close when the rollback fails too) and raised as DatabaseError; the
\* scope's own commit after a committed body has nothing to write
SaveRow(rs, nid, a, stamp, fault) ==
    LET inserted == Append(rs, RowOfSave(nid, stamp, a))
    IN IF fault = "none"
       THEN [rows |-> inserted, nextid |-> nid + 1, outcome |-> "ok", id |-> nid]
       ELSE [rows |-> rs, nextid |-> nid, outcome |-> "DatabaseError", id |-> 0]

\* WHERE 1=1 [AND timestamp >= ?] [AND timestamp <= ?]: a bound is added
\* to the query only when the argument is true
Matches(r, start, end) ==
    /\ Truthy(start) => r.timestamp >= start
    /\ Truthy(end) => r.timestamp <= end

\* mutant: ORDER BY timestamp ascending
OrderedAsc(rs) ==
    {q \in [1..Len(rs) -> Range(rs)] :
        /\ \A i, j \in 1..Len(rs) : q[i] = q[j] => i = j
        /\ \A i, j \in 1..Len(rs) : i < j => q[i].timestamp <= q[j].timestamp}

\* ORDER BY timestamp DESC: the orders the engine may return the rows in
\* (rows with equal timestamps come in an order SQL leaves open)
OrderedDesc(rs) ==
    {q \in [1..Len(rs) -> Range(rs)] :
        /\ \A i, j \in 1..Len(rs) : q[i] = q[j] => i = j
        /\ \A i, j \in 1..Len(rs) : i < j => q[i].timestamp >= q[j].timestamp}

\* [LIMIT ? OFFSET ?], added only when limit is true
Window(q, limit, offset) ==
    IF Truthy(limit)
    THEN [i \in 1..(IF Len(q) - offset < 0 THEN 0
                    ELSE IF Len(q) - offset < limit THEN Len(q) - offset
                    ELSE limit) |-> q[offset + i]]
    ELSE q

\* the rows the SELECT of get_predictions can return
SelectPredictions(rs, a) ==
    {Window(q, a.limit, a.offset) :
        q \in OrderedDesc(SelectSeq(rs, LAMBDA r : Matches(r, a.start, a.end)))}

\* the rows the SELECT of get_feature_data can return (LIMIT ? without offset)
SelectFeatures(rs, limit) == {Window(q, limit, 0) : q \in OrderedDesc(rs)}

\* the columns of pd.DataFrame(list of mappings): every key of some row
Columns(records) == UNION {DOMAIN records[i] : i \in 1..Len(records)}

\* DataFrame.empty: no row or no column
IsEmptyTable(records) == Len(records) = 0 \/ Columns(records) = {}

\* a finished call: how it ended, at which step it failed, what it returned
RepoCall(op, outcome, args, saved, id, records) ==
    [op |-> op, outcome |-> outcome, stage |-> "none", args |-> args, saved |-> saved,
     id |-> id, records |-> records]

InitRepo ==
    /\ disk = [model |-> "model", features |-> ListOf(<<>>)]
    /\ svc = NewService
    /\ arg = NoArg
    /\ last = Obs("none", "none")
    /\ ApiIdle
    /\ ThreadsIdle
    /\ RepoIdle

RepoFrame == UNCHANGED <<scorerVars, callVars, apiVars, concVars, dbVars, driftVars>>

\* save_prediction(features, prediction, probability, latency_ms, timestamp):
\* a timestamp left out is the clock's reading at the call
SavePrediction(a, ts) ==
    /\ Len(rows) < MaxStored
    /\ \E stamp \in (IF ts = None THEN 1..MaxStamp ELSE {ts}),
          fault \in {"none", "connect", "insert", "commit"} :
        LET r == SaveRow(rows, nextid, a, stamp, fault)
        IN /\ rows' = r.rows
           /\ nextid' = r.nextid
           /\ rres' = [RepoCall("save_prediction", r.outcome, NoQuery,
                                [RowOfSave(0, stamp, a) EXCEPT !.features = a.features],
                                r.id, <<>>)
                          EXCEPT !.stage = fault]
    /\ UNCHANGED clock
    /\ RepoFrame

\* get_predictions(limit, offset, start_timestamp, end_timestamp)
GetPredictions(a) ==
    /\ \E fails \in BOOLEAN :
        IF fails
        THEN rres' = RepoCall("get_predictions", "DatabaseError", a, NoRow, 0, <<>>)
        ELSE \E q \in SelectPredictions(rows, a) :
                rres' = RepoCall("get_predictions", "ok", a, NoRow, 0,
                                 [i \in 1..Len(q) |-> RowDict(q[i])])
    /\ UNCHANGED <<rows, nextid, clock>>
    /\ RepoFrame

\* get_feature_data(limit): one mapping per selected row; an empty selection
\* returns pd.DataFrame()
GetFeatureData(limit) ==
    /\ \E fails \in BOOLEAN :
        IF fails
        THEN rres' = RepoCall("get_feature_data", "DatabaseError",
                              [NoQuery EXCEPT !.limit = limit], NoRow, 0, <<>>)
        ELSE \E q \in SelectFeatures(rows, limit) :
                rres' = RepoCall("get_feature_data", "ok",
                                 [NoQuery EXCEPT !.limit = limit], NoRow, 0,
                                 [i \in 1..Len(q) |-> JsonLoads(q[i].features)])
    /\ UNCHANGED <<rows, nextid, clock>>
    /\ RepoFrame

\* get_prediction_count: SELECT COUNT(*)
GetPredictionCount ==
    /\ \E fails \in BOOLEAN :
        rres' = RepoCall("get_prediction_count",
                         IF fails THEN "DatabaseError" ELSE "ok", NoQuery, NoRow,
                         IF fails THEN 0 ELSE Len(rows), <<>>)
    /\ UNCHANGED <<rows, nextid, clock>>
    /\ RepoFrame

\* the argument combinations of get_predictions explored: a window without
\* bounds (every limit without offset; an offset with a limit and without),
\* or bounds without a window
Queries ==
    {[NoQuery EXCEPT !.limit = l] : l \in {None} \cup (0..MaxStored)}
    \cup {[NoQuery EXCEPT !.limit = l, !.offset = 1] : l \in {None, 1}}
    \cup {[NoQuery EXCEPT !.start = s, !.end = e] : s, e \in {None} \cup Stamps}

NextRepo ==
    \/ \E a \in StoredArgs, ts \in {None} \cup Stamps : SavePrediction(a, ts)
    \/ \E a \in Queries : GetPredictions(a)
    \/ \E l \in {None} \cup (0..MaxStored) : GetFeatureData(l)
    \/ GetPredictionCount

SpecRepo == InitRepo /\ [][NextRepo]_vars

\* ------------------------------------------------------- the drift engine
\* the label column of the reference CSV, a name that is no feature
ClassColumn == 0

\* the reference artifact: absent, not readable as CSV, or a table with
\* these columns in file order
References ==
    {[kind |-> k, columns |-> <<>>] : k \in {"missing", "unreadable"}}
    \cup {[kind |-> "table", columns |-> c] :
            c \in {s \in SeqsUpTo(Names \cup {ClassColumn}, MaxSchemaLen) :
                      \A i, j \in 1..Len(s) : s[i] = s[j] => i = j}}

\* mutant: the label column is kept
LoadReferenceKeepsLabel(r) ==
    IF r.kind = "table"
    THEN [DriftCall("ok", "none") EXCEPT !.columns = r.columns]
    ELSE DriftCall("DriftDetectionError", "reference_not_found")

\* load_reference_data: the table without its label column, or
\* DriftDetectionError
LoadReferenceData(r) ==
    IF r.kind = "missing" THEN DriftCall("DriftDetectionError", "reference_not_found")
    ELSE IF r.kind = "unreadable"
    THEN DriftCall("DriftDetectionError", "reference_unreadable")
    ELSE [DriftCall("ok", "none") EXCEPT
            !.columns = SelectSeq(r.columns, LAMBDA c : c # ClassColumn)]

\* mutant: an empty table is counted like any other
AvailabilityCountsOnly(records, minimum) ==
    IF Len(records) < minimum THEN "insufficient" ELSE "ok"

\* mutant: too few rows is a warning only
AvailabilityWarnsOnly(records, minimum) ==
    IF IsEmptyTable(records) THEN "no_live_data" ELSE "ok"

\* the availability checks on the live table: empty, then fewer rows than
\* min_records
Availability(records, minimum) ==
    IF IsEmptyTable(records) THEN "no_live_data"
    ELSE IF Len(records) < minimum THEN "insufficient"
    ELSE "ok"

\* mutant: the two differences exchanged
FeatureMismatchSwapped(reference, live) ==
    [missing |-> Sorted(live \ reference), extra |-> Sorted(reference \ live)]

\* the two set differences the mismatch message lists, each sorted
FeatureMismatch(reference, live) ==
    [missing |-> Sorted(reference \ live), extra |-> Sorted(live \ reference)]

\* mutant: only DriftDetectionError is caught
RaisedAsItIs(d, error) == [d EXCEPT !.outcome = error, !.kind = "raw"]

\* except Exception: raised again as DriftDetectionError("Drift detection
\* failed: ...") around the original message
RaisedWrapped(d, error) ==
    [d EXCEPT !.outcome = "DriftDetectionError", !.kind = error, !.wrapped = TRUE]

\* detect_drift(limit) with the rows get_feature_data selected
DetectDriftOn(r, q, limit, f) ==
    LET reference == LoadReferenceData(r)
        records == [i \in 1..Len(q) |-> JsonLoads(q[i].features)]
        call == [DriftCall("ok", "none") EXCEPT !.limit = limit, !.faults = f]
        fetched == [call EXCEPT !.fetched = Len(records)]
        available == Availability(records, MinRecords)
        counted == [fetched EXCEPT !.count = Len(records), !.minimum = MinRecords]
        diff == FeatureMismatch(Range(reference.columns), Columns(records))
        compared == [counted EXCEPT !.ran = TRUE, !.columns = reference.columns]
    IN IF reference.outcome # "ok"
       THEN [call EXCEPT !.outcome = reference.outcome, !.kind = reference.kind]
       ELSE IF f.db THEN RaisedWrapped(call, "DatabaseError")
       ELSE IF available = "no_live_data"
       THEN [fetched EXCEPT !.outcome = "DriftDetectionError", !.kind = "no_live_data"]
       ELSE IF available = "insufficient"
       THEN [counted EXCEPT !.outcome = "DriftDetectionError", !.kind = "insufficient"]
       ELSE IF Range(reference.columns) # Columns(records)
       THEN [counted EXCEPT !.outcome = "DriftDetectionError", !.kind = "mismatch",
                            !.missing = diff.missing, !.extra = diff.extra]
       ELSE IF f.run THEN RaisedWrapped(counted, "ReportError")
       ELSE IF f.write \in {"mkdir", "html"} THEN RaisedWrapped(compared, "OSError")
       ELSE IF f.write = "json"
       THEN RaisedWrapped([compared EXCEPT !.html = TRUE], "OSError")
       ELSE [compared EXCEPT !.html = TRUE, !.json = TRUE]

\* the call reached report.run: every check before the comparison passed
ReachedComparison(d) ==
    d.outcome = "ok" \/ (d.wrapped /\ d.kind \in {"ReportError", "OSError"})

\* mutant: the report file is created before the checks
ArtifactsTouchedFirst(a, d) ==
    [html |-> "current", json |-> IF d.json THEN "current" ELSE a.json]

\* the artifact directory after a call: save_html and save_json overwrite
\* their file, nothing else touches the two files
ArtifactsAfter(a, d) ==
    LET Aged(x) == IF ReachedComparison(d) /\ x = "current" THEN "older" ELSE x
    IN [html |-> IF d.html THEN "current" ELSE Aged(a.html),
        json |-> IF d.json THEN "current" ELSE Aged(a.json)]

\* stores the drift engine is run against: records with no, some or all of
\* the feature names, saved at successive clock readings
DriftStores ==
    LET features == {[n \in K |-> MaxValue] : K \in {{}, {1}, Names}}
        stored == SeqsUpTo(features, MaxStored)
    IN {[i \in 1..Len(s) |->
            RowOfSave(i, i, [features |-> s[i], prediction |-> 0,
                             probability |-> 25, latency_ms |-> 1])] : s \in stored}

InitDrift ==
    /\ disk = [model |-> "model", features |-> ListOf(<<>>)]
    /\ svc = NewService
    /\ arg = NoArg
    /\ last = Obs("none", "none")
    /\ ApiIdle
    /\ ThreadsIdle
    /\ rows \in DriftStores
    /\ nextid = Len(rows) + 1
    /\ rres = NoRepoCall
    /\ clock = 0
    /\ ref \in References
    /\ dres = NoDriftCall
    /\ artifacts = NoArtifacts

DriftFrame ==
    UNCHANGED <<scorerVars, callVars, apiVars, concVars, dbVars, repoVars, ref>>

\* MonitoringService.detect_drift(limit)
DetectDrift(limit) ==
    /\ \E f \in DriftFaults, q \in SelectFeatures(rows, limit) :
        /\ dres' = DetectDriftOn(ref, q, limit, f)
        /\ artifacts' = ArtifactsAfter(artifacts, DetectDriftOn(ref, q, limit, f))
    /\ DriftFrame

\* DriftDetector.detect: detect_drift(limit = self.limit), an exception is
\* logged and raised again
Detect(limit) ==
    /\ \E f \in DriftFaults, q \in SelectFeatures(rows, limit) :
        /\ dres' = [DetectDriftOn(ref, q, limit, f) EXCEPT !.op = "detect"]
        /\ artifacts' = ArtifactsAfter(artifacts, DetectDriftOn(ref, q, limit, f))
    /\ DriftFrame

NextDrift ==
    \/ \E l \in {None} \cup (0..MaxStored) : DetectDrift(l)
    \/ \E l \in {None, MaxStored} : Detect(l)

SpecDrift == InitDrift /\ [][NextDrift]_vars

\* ------------------------------------------------------ the health endpoint
\* DatabaseManager.health_check: SELECT 1 in a scoped connection; every
\* exception is caught and answered False
DbHealthCheck(st) == st = "up"

HealthResponse(code, stage, status, ml, dc) ==
    [op |-> "health", status |-> code, stage |-> stage, health |-> status,
     model_loaded |-> ml, database_connected |-> dc]

\* mutant: a health check that reports "healthy" when either part is available
HealthCheckEither(s, st, raises) ==
    IF raises THEN HealthResponse(200, "handler", "error", FALSE, FALSE)
    ELSE HealthResponse(200, "handler",
            IF IsLoaded(s) \/ DbHealthCheck(st) THEN "healthy" ELSE "degraded",
            IsLoaded(s), DbHealthCheck(st))

\* the handler of GET /health, given its two collaborators; raises stands
\* for a collaborator whose check raises (a substituted dependency)
HealthCheckOn(s, st, raises) ==
    IF raises THEN HealthResponse(200, "handler", "error", FALSE, FALSE)
    ELSE LET model_loaded == IsLoaded(s)
             database_connected == DbHealthCheck(st)
         IN HealthResponse(200, "handler",
                IF model_loaded /\ database_connected THEN "healthy" ELSE "degraded",
                model_loaded, database_connected)

\* an exception of a dependency reaches the framework: a 500 answer that is
\* no HealthResponse
HealthFailure == HealthResponse(500, "dependency", "none", FALSE, FALSE)

InitHealth ==
    /\ disk \in [model : ModelFiles, features : FeatureFiles]
    /\ svc = NewService
    /\ arg = NoArg
    /\ last = Obs("none", "none")
    /\ cached = FALSE
    /\ app = "init"
    /\ storage \in {"up", "down"}
    /\ gmgr = 0
    /\ nrows = 0
    /\ resp = NoResp
    /\ ThreadsIdle
    /\ RepoIdle

\* get_db_manager() called on its own
GetDbManager ==
    LET db == GetDatabaseManagerOn(gmgr, storage)
    IN /\ gmgr' = db.gmgr
       /\ last' = Obs("get_db_manager", db.outcome)
       /\ UNCHANGED <<scorerVars, arg, cached, app, storage, nrows, resp, concVars, dbVars, repoVars, driftVars>>

\* health_check(model_service, db_manager) called with the singleton and a
\* constructed manager
HealthCheck(raises) ==
    /\ gmgr # 0
    /\ resp' = HealthCheckOn(svc, storage, raises)
    /\ last' = Obs("health_check", IF raises THEN "raised" ELSE "ok")
    /\ UNCHANGED <<scorerVars, arg, cached, app, storage, gmgr, nrows, concVars, dbVars, repoVars, driftVars>>

\* GET /health: the two dependencies are resolved in parameter order, then
\* the handler runs
HealthRequest ==
    LET ms == GetModelServiceOn(svc, disk, cached)
        db == GetDatabaseManagerOn(gmgr, storage)
    IN /\ svc' = ms.svc
       /\ cached' = ms.cached
       /\ IF ms.outcome # "ok"
          THEN /\ resp' = HealthFailure
               /\ last' = Obs("health_request", ms.outcome)
               /\ UNCHANGED gmgr
          ELSE IF db.outcome # "ok"
          THEN /\ resp' = HealthFailure
               /\ last' = Obs("health_request", db.outcome)
               /\ UNCHANGED gmgr
          ELSE /\ gmgr' = db.gmgr
               /\ resp' = HealthCheckOn(ms.svc, storage, FALSE)
               /\ last' = Obs("health_request", "ok")
       /\ UNCHANGED <<disk, arg, app, storage, nrows, concVars, dbVars, repoVars, driftVars>>

NextHealth ==
    \/ ArtifactChange
    \/ LoadModel
    \/ ReloadModel
    \/ StorageChange
    \/ GetDbManager
    \/ \E raises \in BOOLEAN : HealthCheck(raises)
    \/ HealthRequest

SpecHealth == InitHealth /\ [][NextHealth]_vars

\* ---------------------------------------------- the endpoint and its store
\* datetime.utcnow().isoformat(): date, 'T', time; as a rank in string
\* order among the texts of both forms (the date decides first, then the
\* separator, and ' ' sorts before 'T', then the time)
IsoFormat(c) ==
    (c \div TicksPerDay) * 2 * TicksPerDay + TicksPerDay + (c % TicksPerDay)

\* SQLite's datetime(...): date, ' ', time, as a rank in the same order; an
\* instant before the first day sorts before every stored text
SqlDatetime(c) ==
    IF c < 0 THEN 0
    ELSE (c \div TicksPerDay) * 2 * TicksPerDay + (c % TicksPerDay)

\* mutant: pruning gives the ids of the deleted tail back (a rowid table
\* without AUTOINCREMENT)
DeleteReusingIds(rs, nid, now, days, fault) ==
    LET kept == SelectSeq(rs, LAMBDA r : ~(r.timestamp < SqlDatetime(now - days * TicksPerDay)))
    IN IF fault # "none"
       THEN [rows |-> rs, nextid |-> nid, outcome |-> "DatabaseError", count |-> 0]
       ELSE [rows |-> kept,
             nextid |-> IF kept = <<>> THEN 1 ELSE kept[Len(kept)].id + 1,
             outcome |-> "ok", count |-> Len(rs) - Len(kept)]

\* delete_old_predictions(days): DELETE ... WHERE timestamp <
\* datetime('now', '-' || days || ' days'), commit, return cursor.rowcount;
\* the comparison is one of texts; AUTOINCREMENT keeps the id counter
DeleteOldPredictionsOn(rs, nid, now, days, fault) ==
    LET cutoff == SqlDatetime(now - days * TicksPerDay)
        kept == SelectSeq(rs, LAMBDA r : ~(r.timestamp < cutoff))
    IN IF fault # "none"
       THEN [rows |-> rs, nextid |-> nid, outcome |-> "DatabaseError", count |-> 0]
       ELSE [rows |-> kept, nextid |-> nid, outcome |-> "ok",
             count |-> Len(rs) - Len(kept)]

\* what the handler stores as features: tx.model_dump(), every field of the
\* request model
SavedFeatures(tx) == tx

\* mutant: the handler saves before it looks at how the scoring ended
PredictHandlerSavesFirst(s, tx, rs, nid, now, fault) ==
    LET r == PredictOn(s, tx)
        a == [features |-> SavedFeatures(tx), prediction |-> r.prediction,
              probability |-> r.probability, latency_ms |-> 1]
        sv == SaveRow(rs, nid, a, IsoFormat(now), fault)
    IN [rows |-> sv.rows, nextid |-> sv.nextid, scored |-> r.outcome,
        save |-> sv.outcome, id |-> sv.id,
        resp |-> Response(IF r.outcome = "ok" THEN 200 ELSE 500, "handler",
                    IF sv.outcome = "ok" THEN "yes" ELSE "failed", r)]

\* the handler of POST /predict with its store: score, stamp, save
\* best-effort, answer
PredictHandlerOn(s, tx, rs, nid, now, fault) ==
    LET r == PredictOn(s, tx)
        a == [features |-> SavedFeatures(tx), prediction |-> r.prediction,
              probability |-> r.probability, latency_ms |-> 1]
        sv == SaveRow(rs, nid, a, IsoFormat(now), fault)
    IN IF r.outcome = "ModelLoadError"
       THEN [rows |-> rs, nextid |-> nid, scored |-> r.outcome, save |-> "none",
             id |-> 0, resp |-> Response(503, "handler", "no", r)]
       ELSE IF r.outcome = "PredictionError"
       THEN [rows |-> rs, nextid |-> nid, scored |-> r.outcome, save |-> "none",
             id |-> 0, resp |-> Response(500, "handler", "no", r)]
       ELSE [rows |-> sv.rows, nextid |-> sv.nextid, scored |-> r.outcome,
             save |-> sv.outcome, id |-> sv.id,
             resp |-> Response(200, "handler",
                         IF sv.outcome = "ok" THEN "yes" ELSE "failed", r)]

\* the application is serving: a model with one of the schemas is loaded,
\* the storage manager exists and the table is empty
InitStore ==
    /\ disk \in [model : {"model"}, features : {ListOf(q) : q \in Schemas}]
    /\ svc = LoadModelOn(NewService, disk).svc
    /\ arg = NoArg
    /\ last = Obs("none", "none")
    /\ cached = TRUE
    /\ app = "serving"
    /\ storage = "up"
    /\ gmgr = 1
    /\ nrows = 0
    /\ resp = NoResp
    /\ ThreadsIdle
    /\ RepoIdle

StoreFrame == UNCHANGED <<scorerVars, cached, app, storage, gmgr, concVars, dbVars, driftVars>>

\* time passes
Tick ==
    /\ clock < MaxClock
    /\ clock' = clock + 1
    /\ UNCHANGED <<callVars, nrows, resp, rows, nextid, rres>>
    /\ StoreFrame

\* POST /predict answered by the handler
ScoreRequest(tx) ==
    /\ Len(rows) < MaxRows
    /\ nextid <= MaxId
    /\ \E fault \in {"none", "connect", "insert", "commit"} :
        LET h == PredictHandlerOn(svc, tx, rows, nextid, clock, fault)
        IN /\ rows' = h.rows
           /\ nrows' = Len(h.rows)
           /\ nextid' = h.nextid
           /\ resp' = h.resp
           /\ arg' = tx
           /\ last' = Obs("predict_request", h.scored)
           /\ rres' = [RepoCall(IF h.save = "none" THEN "none" ELSE "save_prediction",
                                h.save, NoQuery, NoRow, h.id, <<>>)
                          EXCEPT !.stage = IF h.save = "none" THEN "none" ELSE fault]
    /\ UNCHANGED clock
    /\ StoreFrame

\* delete_old_predictions(days)
DeleteOldPredictions(days) ==
    /\ \E fault \in {"none", "connect", "delete", "commit"} :
        LET d == DeleteOldPredictionsOn(rows, nextid, clock, days, fault)
        IN /\ rows' = d.rows
           /\ nrows' = Len(d.rows)
           /\ nextid' = d.nextid
           /\ rres' = [RepoCall("delete_old_predictions", d.outcome, NoQuery, NoRow,
                                d.count, <<>>)
                          EXCEPT !.stage = fault]
    /\ UNCHANGED <<callVars, resp, clock>>
    /\ StoreFrame

\* a read of the store
ReadStore ==
    /\ \E q \in SelectPredictions(rows, NoQuery) :
        rres' = RepoCall("get_predictions", "ok", NoQuery, NoRow, 0,
                         [i \in 1..Len(q) |-> RowDict(q[i])])
    /\ UNCHANGED <<callVars, nrows, resp, rows, nextid, clock>>
    /\ StoreFrame

NextStore ==
    \/ Tick
    \/ \E tx \in Transactions : ScoreRequest(tx)
    \/ \E days \in 0..MaxDays : DeleteOldPredictions(days)
    \/ ReadStore

SpecStore == InitStore /\ [][NextStore]_vars

\* ================================================================ claims
IsAscending(q) == \A i \in 1..(Len(q) - 1) : q[i] < q[i + 1]

SchemaOf(s) == s.feature_list.items

\* the input carries every schema name with a value the estimator accepts
Accepts(s, f) ==
    /\ Range(SchemaOf(s)) \subseteq DOMAIN f
    /\ \A k \in Range(SchemaOf(s)) : f[k] >= 0

\* C2: predict on a loaded scorer with an input lacking at least one schema
\* name fails with PredictionError, its missing_features detail is exactly
\* the set (schema names minus input keys) in ascending order, and the
\* estimator is not invoked.
C2_MissingFeaturesSorted ==
    (last.op = "predict" /\ IsLoaded(svc) /\ Range(SchemaOf(svc)) \ DOMAIN arg # {}) =>
        /\ last.outcome = "PredictionError"
        /\ Range(last.list) = Range(SchemaOf(svc)) \ DOMAIN arg
        /\ IsAscending(last.list)
        /\ ~last.invoked

\* two names are missing and the schema lists them in descending order
C2_Witness ==
    /\ last.op = "predict"
    /\ last.outcome = "PredictionError"
    /\ Len(last.list) = 2
    /\ ~IsAscending(SchemaOf(svc))
    /\ ~last.invoked

\* C3: for an input containing every schema key, predict gives the same
\* outcome, label and probability as the same call with the non-schema keys
\* removed, and the estimator receives exactly the schema keys in schema
\* order in both calls.
C3_ExtraKeysIgnored ==
    [][(PredictRestricted /\ IsLoaded(svc) /\ Range(SchemaOf(svc)) \subseteq DOMAIN arg) =>
          /\ last'.outcome = last.outcome
          /\ last'.prediction = last.prediction
          /\ last'.probability = last.probability
          /\ last.invoked /\ last'.invoked
          /\ last.cols = SchemaOf(svc)
          /\ last'.cols = SchemaOf(svc)]_vars

\* a successful call whose input had a key outside the schema, compared
C3_Witness ==
    /\ last.op = "predict_restricted"
    /\ last.outcome = "ok"
    /\ last.prediction = 1
    /\ DOMAIN arg \ Range(SchemaOf(svc)) # {}

\* C4: in every state where the scorer is not Loaded, predict and
\* get_feature_list fail with ModelLoadError (the estimator is not invoked);
\* and a predict call made right after load_model (or reload_model) returned
\* normally succeeds whenever its input carries every schema name with
\* coercible values.
C4_LoadGate ==
    [][/\ (disk' = disk /\ last'.op = "predict") =>
            \A f \in UniformInputs : Predict(f) =>
                /\ ~IsLoaded(svc) => (last'.outcome = "ModelLoadError" /\ ~last'.invoked)
                /\ (last.op \in {"load_model", "reload_model"} /\ last.outcome = "ok"
                        /\ Accepts(svc, f)) => last'.outcome = "ok"
       /\ (~IsLoaded(svc) /\ GetFeatureList) => last'.outcome = "ModelLoadError"]_vars

\* predict refused after a load that failed part-way (model in memory,
\* feature list rejected)
C4_Witness ==
    /\ last.op = "predict"
    /\ last.outcome = "ModelLoadError"
    /\ svc.model # "None"
    /\ svc.feature_list.kind # "none"

\* C5: in the Loaded state load_model, is_loaded, predict and
\* get_feature_list leave the scorer's state unchanged and read no artifact,
\* and every step that takes the scorer out of Loaded is a reload_model.
C5_LoadedIsStable ==
    [][IsLoaded(svc) =>
          /\ (disk' = disk /\ (LoadModel \/ IsLoadedCall \/ GetFeatureList
                \/ \E f \in UniformInputs : Predict(f))) =>
                    (svc' = svc /\ last'.reads = 0)
          /\ ~IsLoaded(svc') => ReloadModel]_vars

\* load_model returned without reading although the artifact on disk differs
\* from the schema in memory
C5_Witness ==
    /\ last.op = "load_model"
    /\ last.outcome = "ok"
    /\ last.reads = 0
    /\ IsLoaded(svc)
    /\ disk.features # svc.feature_list

\* C6: reload_model on a Loaded scorer whose artifacts still hold what was
\* loaded leaves is_loaded() true and the feature schema equal to the schema
\* before the reload.
C6_ReloadKeepsSchema ==
    [][(ReloadModel /\ IsLoaded(svc) /\ disk.model = svc.model
            /\ disk.features = svc.feature_list) =>
          /\ last'.outcome = "ok"
          /\ IsLoaded(svc')
          /\ GetFeatureListOn(svc').outcome = "ok"
          /\ GetFeatureListOn(svc').list = GetFeatureListOn(svc).list]_vars

\* a reload of a scorer that was Loaded, after which the schema is the one
\* it held before
C6_Witness ==
    /\ last.op = "reload_model"
    /\ last.outcome = "ok"
    /\ last.flag
    /\ last.reads = 2
    /\ IsLoaded(svc)
    /\ last.list = SchemaOf(svc)

\* C1: a scoring request whose features score successfully on the scorer is
\* answered 200, whatever the storage does during the request.
C1_PersistenceNeverFailsRequest ==
    (last.op = "predict_request" /\ resp.op = "predict"
        /\ PredictOn(svc, arg).outcome = "ok") => resp.status = 200

InLoadSequence(t) == tpc[t] \in {"load_read_model", "load_read_features", "load_set_loaded"}

\* C7: no caller of predict or get_feature_list that passed the is_loaded
\* check afterwards reads a model or feature list that a concurrent reload
\* has cleared.
C7_NoPartialObservation == \A t \in Threads : ~tloc[t].torn

\* C8: at most one thread at a time is inside the load sequence that reads
\* the model and feature-list artifacts.
C8_OneLoadAtATime == Cardinality({t \in Threads : InLoadSequence(t)}) <= 1

InSchemaInit(t) == dpc[t] \in {"init_create_table", "init_create_index", "init_commit"}

\* C9: no two threads execute the CREATE TABLE / CREATE INDEX sequence at
\* the same time, and at most one DatabaseManager instance is ever
\* constructed by get_database_manager.
C9_SchemaInitExclusive ==
    /\ Cardinality({t \in Threads : InSchemaInit(t)}) <= 1
    /\ made <= 1

\* C10: when no storage call is in progress, no connection is open: every
\* connection acquired through DatabaseManager.get_connection or through the
\* module-level get_connection() has been closed.
C10_NoOpenConnectionAtRest ==
    (\A t \in Threads : dpc[t] = "idle") =>
        ((\A t \in Threads : open[t] = 0) /\ abandoned = 0)

\* C11: every failed storage-manager call ends with DatabaseError: no call
\* finishes with the engine's own exception, also when the rollback on the
\* failure path fails.
C11_OnlyDatabaseError ==
    \A t \in Threads : dpc[t] = "idle" => dloc[t].outcome # "sqlite3.Error"

\* ----------------------------------------------------------- repository
NoBounds(a) == a.start = None /\ a.end = None

\* the row the most recent successful save inserted is newer than all others
LastIsNewest ==
    /\ rows # <<>>
    /\ \A i \in 1..(Len(rows) - 1) : rows[i].timestamp < rows[Len(rows)].timestamp

\* a successful save directly followed by a successful get_predictions(limit=1)
SaveThenQueryOne ==
    /\ rres.op = "save_prediction" /\ rres.outcome = "ok"
    /\ rres'.op = "get_predictions" /\ rres'.outcome = "ok"
    /\ rres'.args = [NoQuery EXCEPT !.limit = 1]

\* C12 as stated: after a successful save, get_predictions(limit=1) returns
\* exactly one record, with the saved timestamp, features, prediction,
\* probability and latency and the id that save returned.
C12_RoundTrip ==
    [][SaveThenQueryOne => rres'.records = <<[rres.saved EXCEPT !.id = rres.id]>>]_vars

\* C12 amended: the same, for a save whose timestamp is strictly greater
\* than the timestamp of every other stored record.
C12_RoundTripOfNewest ==
    [][(SaveThenQueryOne /\ LastIsNewest)
        => rres'.records = <<[rres.saved EXCEPT !.id = rres.id]>>]_vars

C12_Witness ==
    /\ rres.op = "get_predictions" /\ rres.outcome = "ok"
    /\ rres.args = [NoQuery EXCEPT !.limit = 1]
    /\ Len(rows) >= 2 /\ LastIsNewest
    /\ rres.records = <<RowDict(rows[Len(rows)])>>
    /\ DOMAIN rres.records[1].features = Names

IsDescending(recs) ==
    \A i, j \in 1..Len(recs) : i < j => recs[i].timestamp >= recs[j].timestamp

\* the selections of k rows of the store (all rows when the store has
\* fewer), newest first, that leave out no row newer than one they contain
NewestRows(k) ==
    LET m == IF k < Len(rows) THEN k ELSE Len(rows)
    IN {q \in [1..m -> Range(rows)] :
          /\ \A i, j \in 1..m : q[i] = q[j] => i = j
          /\ IsDescending(q)
          /\ \A r \in Range(rows) \ Range(q) : \A i \in 1..m : r.timestamp <= q[i].timestamp}

\* get_predictions / get_feature_data returned the n newest rows, newest first
ReturnsNewest(n) ==
    /\ rres.op = "get_predictions" =>
          \E q \in NewestRows(n) : rres.records = [i \in 1..Len(q) |-> RowDict(q[i])]
    /\ rres.op = "get_feature_data" =>
          \E q \in NewestRows(n) :
              rres.records = [i \in 1..Len(q) |-> JsonLoads(q[i].features)]

UnboundedRead ==
    /\ rres.op \in {"get_predictions", "get_feature_data"} /\ rres.outcome = "ok"
    /\ NoBounds(rres.args) /\ rres.args.offset = 0

C14_InclusiveBounds ==
    (rres.op = "get_predictions" /\ rres.outcome = "ok" /\ ~Truthy(rres.args.limit)) =>
        /\ {rres.records[i].id : i \in 1..Len(rres.records)}
              = {r.id : r \in {x \in Range(rows) :
                      /\ rres.args.start # None => rres.args.start <= x.timestamp
                      /\ rres.args.end # None => x.timestamp <= rres.args.end}}
        /\ \A i, j \in 1..Len(rres.records) :
              rres.records[i].id = rres.records[j].id => i = j

\* C16: a save_prediction that fails with DatabaseError leaves the table as
\* it was (no row of the failed call is visible); a failed call returns
\* no id and no record.
C16_AllOrNothing ==
    [][/\ (rres'.op = "save_prediction" /\ rres'.outcome = "DatabaseError")
            => (rows' = rows /\ nextid' = nextid)
       /\ rres'.outcome = "DatabaseError" => (rres'.records = <<>> /\ rres'.id = 0)]_vars

\* a save failed at its commit, after the INSERT, on a table that has rows
C16_Witness ==
    /\ rres.op = "save_prediction" /\ rres.outcome = "DatabaseError"
    /\ rres.stage = "commit"
    /\ Len(rows) >= 1 /\ nextid = Len(rows) + 1

\* ---------------------------------------------------------- drift engine
\* the rows get_feature_data(limit) selects for the call in dres
Selected ==
    CHOOSE q \in NewestRows(IF Truthy(dres.limit) THEN dres.limit ELSE Len(rows)) : TRUE

\* the feature names that occur in the selected rows
LiveKeys == UNION {DOMAIN JsonLoads(Selected[i].features) : i \in 1..Len(Selected)}

\* the columns of the reference table other than the label
RefKeys == Range(ref.columns) \ {ClassColumn}

DomainError(d) == d.outcome = "DriftDetectionError" /\ ~d.wrapped

\* C15: on a store without rows the live table is fetched without error and
\* is empty, and detect_drift then fails with the "no live data"
\* DriftDetectionError, not with the count or the mismatch error.
C15_EmptyStoreIsNoLiveData ==
    /\ (dres.op # "none" /\ rows = <<>> /\ ref.kind = "table" /\ ~dres.faults.db)
          => dres.fetched = 0
    /\ dres.fetched = 0 => (DomainError(dres) /\ dres.kind = "no_live_data" /\ ~dres.ran)

C15_Witness ==
    /\ rows = <<>> /\ dres.op = "detect_drift" /\ dres.fetched = 0
    /\ dres.kind = "no_live_data" /\ RefKeys # {}

\* the call failed with the count error: actual count, required minimum
CountError ==
    /\ DomainError(dres) /\ dres.kind = "insufficient"
    /\ dres.count = dres.fetched /\ dres.minimum = MinRecords
    /\ ~dres.ran /\ ~dres.html /\ ~dres.json

\* whatever the reference is, a selection below the minimum ends in
\* DriftDetectionError
FailsBelowMinimum ==
    (dres.op # "none" /\ Len(Selected) > 0 /\ Len(Selected) < MinRecords)
        => dres.outcome = "DriftDetectionError"

\* C17 as stated: when the number of rows fetched is non-zero and below
\* min_records, detect_drift fails with DriftDetectionError giving the
\* count and the minimum, the comparison is not run, and the call fails
\* with DriftDetectionError whatever the reference is.
C17_BelowMinimumFails ==
    /\ (dres.fetched # None /\ dres.fetched > 0 /\ dres.fetched < MinRecords) => CountError
    /\ FailsBelowMinimum

\* C17 amended: the same when some fetched record has a feature key; rows
\* whose feature mappings are all empty make an empty table.
C17_BelowMinimumFailsWithColumns ==
    /\ (dres.fetched # None /\ dres.fetched > 0 /\ dres.fetched < MinRecords
           /\ LiveKeys # {}) => CountError
    /\ FailsBelowMinimum

C17_Witness ==
    /\ dres.op = "detect_drift" /\ dres.fetched = MinRecords - 1 /\ dres.fetched > 0
    /\ Len(rows) >= MinRecords /\ dres.kind = "insufficient"
    /\ RefKeys = LiveKeys

\* the call failed with the mismatch error listing both differences
MismatchError ==
    /\ DomainError(dres) /\ dres.kind = "mismatch"
    /\ dres.missing = Sorted(RefKeys \ LiveKeys)
    /\ dres.extra = Sorted(LiveKeys \ RefKeys)
    /\ ~dres.ran

\* C18 as stated: with at least min_records rows fetched, a live column set
\* different from the reference's (label dropped) fails with
\* DriftDetectionError listing reference-minus-live as missing and
\* live-minus-reference as extra; equal sets never fail this check.
C18_MismatchListsBoth ==
    (dres.fetched # None /\ dres.fetched >= MinRecords) =>
        /\ RefKeys # LiveKeys => MismatchError
        /\ RefKeys = LiveKeys => dres.kind # "mismatch"

\* C18 amended: the same when some fetched record has a feature key.
C18_MismatchListsBothWithColumns ==
    (dres.fetched # None /\ dres.fetched >= MinRecords /\ LiveKeys # {}) =>
        /\ RefKeys # LiveKeys => MismatchError
        /\ RefKeys = LiveKeys => dres.kind # "mismatch"

\* something missing and something extra at once
C18_Witness ==
    /\ dres.op = "detect_drift" /\ dres.kind = "mismatch"
    /\ Len(dres.missing) > 0 /\ Len(dres.extra) > 0
    /\ ClassColumn \in Range(ref.columns)

\* the store has the minimum and every record has exactly the reference keys
MatchingStore ==
    /\ dres.op # "none" /\ ref.kind = "table" /\ Len(rows) >= MinRecords
    /\ \A i \in 1..Len(rows) : DOMAIN JsonLoads(rows[i].features) = RefKeys

\* the call succeeded on n rows and wrote both artifacts
SuccessOn(n) ==
    /\ dres.outcome = "ok" /\ dres.count = n /\ dres.ran /\ dres.html /\ dres.json

\* C19 as stated: a readable reference, at least min_records stored
\* records, each with exactly the reference columns: detect_drift(limit=n)
\* succeeds with record_count = min(n, stored) and both artifacts written.
C19_MatchingDataSucceeds ==
    MatchingStore =>
        SuccessOn(IF dres.limit = None \/ dres.limit > Len(rows)
                  THEN Len(rows) ELSE dres.limit)

\* C19 amended: the same when the limit is left out or is at least
\* min_records, the reference has a feature column, and neither the store,
\* the report computation nor the writing of the artifacts fails.
C19_MatchingDataSucceedsUnlessFault ==
    (MatchingStore /\ (dres.limit = None \/ dres.limit >= MinRecords)
        /\ RefKeys # {} /\ dres.faults = NoFaults) =>
        SuccessOn(IF dres.limit = None \/ dres.limit > Len(rows)
                  THEN Len(rows) ELSE dres.limit)

\* a limit below the stored count, a reference that lists its columns in
\* another order than the names' order
C19_Witness ==
    /\ MatchingStore /\ dres.outcome = "ok" /\ ref.columns # Sorted(RefKeys)
    /\ dres.limit = MinRecords /\ Len(rows) > MinRecords /\ dres.count = MinRecords
    /\ dres.html /\ dres.json

\* C20: detect_drift and DriftDetector.detect end normally or with
\* DriftDetectionError; its own errors are raised as they are, every other
\* failure (store, report, artifact writing) is wrapped as one.
C20_OnlyDriftDetectionError ==
    dres.op # "none" =>
        /\ dres.outcome \in {"ok", "DriftDetectionError"}
        /\ dres.kind \in {"reference_not_found", "reference_unreadable", "no_live_data",
                          "insufficient", "mismatch"} => DomainError(dres)
        /\ (dres.faults.db /\ ref.kind = "table")
              => (dres.outcome = "DriftDetectionError" /\ dres.wrapped
                  /\ dres.kind = "DatabaseError")
        /\ (dres.outcome = "ok") <=> (dres.html /\ dres.json)

C20_Witness ==
    /\ dres.op = "detect" /\ dres.outcome = "DriftDetectionError"
    /\ dres.wrapped /\ dres.kind = "DatabaseError" /\ rows # <<>>

\* ------------------------------------------------------------ health
IsHealth == resp.op = "health" /\ resp.stage = "handler"

\* a step that answers a health check: the direct call or the request
HealthStep == (\E raises \in BOOLEAN : HealthCheck(raises)) \/ HealthRequest

Unavailable == (IF IsLoaded(svc) THEN 0 ELSE 1) + (IF storage = "up" THEN 0 ELSE 1)

HealthFlagsAgree ==
    /\ resp.health = "healthy" => (resp.model_loaded /\ resp.database_connected)
    /\ resp.health = "degraded" => ~(resp.model_loaded /\ resp.database_connected)
    /\ resp.health = "error" => (~resp.model_loaded /\ ~resp.database_connected)

DegradedIsExactlyOne ==
    IsHealth =>
        /\ last.outcome = "raised" <=> resp.health = "error"
        /\ last.outcome # "raised" =>
            /\ resp.health = "healthy" <=> Unavailable = 0
            /\ resp.health = "degraded" <=> Unavailable = 1
        /\ HealthFlagsAgree

DegradedIsAtLeastOne ==
    IsHealth =>
        /\ last.outcome = "raised" <=> resp.health = "error"
        /\ last.outcome # "raised" =>
            /\ resp.health = "healthy" <=> Unavailable = 0
            /\ resp.health = "degraded" <=> Unavailable >= 1
            /\ resp.model_loaded = IsLoaded(svc)
            /\ resp.database_connected = (storage = "up")
        /\ HealthFlagsAgree

\* C21 (as stated): in the state in which a health check answers, the
\* status is "healthy" exactly when the model is loaded and the database is
\* connected, "degraded" exactly when exactly one of the two is unavailable,
\* "error" when the check raises, and the two flags agree with the status.
C21_DegradedExactlyOne == [][HealthStep => DegradedIsExactlyOne']_vars

\* C21 (amended): "healthy" exactly when both are available, "degraded"
\* exactly when at least one of the two is unavailable (one or both),
\* "error" exactly when the check raises; the flags are the two
\* availabilities (both false on "error") and agree with the status.
C21_DegradedAtLeastOne == [][HealthStep => DegradedIsAtLeastOne']_vars

C21_Witness ==
    /\ IsHealth
    /\ resp.health = "degraded"
    /\ ~resp.model_loaded
    /\ ~resp.database_connected

\* C22: a request to the health endpoint always produces a structured
\* health response (status 200 with one of the three health statuses),
\* whatever the model and storage availability.
C22_HealthNeverFails ==
    (resp.op = "health" /\ last.op = "health_request") =>
        /\ resp.status = 200
        /\ resp.health \in {"healthy", "degraded", "error"}

\* ------------------------------------------------------ scoring endpoint
\* C23: the scoring endpoint answers 503 to a request made while the model
\* is not loaded, 400 to a request whose features lack a name of the
\* feature schema, and 500 to any other inference failure.
C23_CategoryPerErrorKind ==
    (resp.op = "predict" /\ last.op = "predict_request") =>
        /\ last.outcome = "ModelLoadError" => resp.status = 503
        /\ last.outcome = "PredictionError" =>
            resp.status = IF Range(SchemaOf(svc)) \ DOMAIN arg # {} THEN 400 ELSE 500

\* ------------------------------------------------------------- the store
Ids(rs) == {rs[i].id : i \in 1..Len(rs)}

IsPrefix(p, q) == Len(p) <= Len(q) /\ \A i \in 1..Len(p) : p[i] = q[i]

ScoreStep == \E tx \in Transactions : ScoreRequest(tx)

DeleteStep == \E days \in 0..MaxDays : DeleteOldPredictions(days)

\* C24: a scoring request that scores successfully inserts at most one
\* record and exactly one when the save succeeds, a request whose scoring
\* fails inserts none, no step changes a field of a record that stays in
\* the store, and a record leaves the store only in a step of
\* delete_old_predictions.
C24_CreateOnce ==
    [][/\ ScoreStep =>
            /\ IsPrefix(rows, rows')
            /\ Len(rows') <= Len(rows) + 1
            /\ (last'.outcome = "ok" /\ rres'.outcome = "ok") => Len(rows') = Len(rows) + 1
            /\ last'.outcome # "ok" => rows' = rows
       /\ \A r \in Range(rows), q \in Range(rows') : r.id = q.id => r = q
       /\ Ids(rows) \ Ids(rows') # {} => DeleteStep]_vars

C24_Witness ==
    /\ rres.op = "delete_old_predictions"
    /\ rres.outcome = "ok"
    /\ rres.id >= 1
    /\ Len(rows) >= 1

\* C25: every record written by the prediction endpoint has a features
\* blob whose key set is exactly the key set of the active feature schema.
C25_FeaturesAreSchemaKeys ==
    \A i \in 1..Len(rows) : DOMAIN JsonLoads(rows[i].features) = Range(SchemaOf(svc))

\* C26: the id a successful save returns is larger than every id the store
\* holds and every id issued before (the counter of issued ids never goes
\* back, whatever is deleted), so ids are unique and strictly increasing in
\* insertion order.
C26_IdsNeverReused ==
    [][/\ nextid' >= nextid
       /\ \A r \in Range(rows') : r.id < nextid'
       /\ \A i, j \in 1..Len(rows') : i < j => rows'[i].id < rows'[j].id
       /\ (ScoreStep /\ rres'.op = "save_prediction" /\ rres'.outcome = "ok") =>
            /\ rres'.id = nextid
            /\ nextid' = nextid + 1
            /\ rows' = Append(rows, rows'[Len(rows')])
            /\ rows'[Len(rows')].id = rres'.id]_vars

C26_Witness ==
    /\ rres.op = "save_prediction"
    /\ rres.outcome = "ok"
    /\ rres.id > Len(rows)

\* the instant an endpoint-written timestamp denotes
InstantOf(stamp) == CHOOSE c \in 0..MaxClock : IsoFormat(c) = stamp

\* C29: delete_old_predictions(days) deletes exactly the records stamped
\* earlier than the current instant minus `days` days, keeps every other
\* record, and returns the number of records deleted.
C29_DeletesExactlyTheOld ==
    [][\A days \in 0..MaxDays :
        (DeleteOldPredictions(days) /\ rres'.outcome = "ok") =>
            /\ rows' = SelectSeq(rows, LAMBDA r :
                          ~(InstantOf(r.timestamp) < clock - days * TicksPerDay))
            /\ rres'.id = Len(rows) - Len(rows')]_vars

\* ------------------------------------------------------------ is_loaded
\* C27: in every reachable state is_loaded() is true exactly when the
\* service holds both a model and a feature list in memory.
C27_LoadedIffBothInMemory ==
    IsLoaded(svc) <=> (svc.model # "None" /\ svc.feature_list.kind # "none")

\* ------------------------------------------------------------ the window
\* the records of q after the first k, at most n of them (all when n is None)
SkipTake(q, k, n) ==
    LET rest == IF Len(q) > k THEN Len(q) - k ELSE 0
        len == IF n = None \/ rest < n THEN rest ELSE n
    IN [i \in 1..len |-> RowDict(q[k + i])]

\* C28: get_predictions(limit = n, offset = k) returns the matching records
\* in descending timestamp order after skipping the first k, at most n of
\* them when a limit is given and all of the rest when the limit is omitted;
\* a supplied offset always skips that many records.
C28_WindowSkipsAndLimits ==
    (rres.op = "get_predictions" /\ rres.outcome = "ok") =>
        /\ rres.args.limit # None => Len(rres.records) <= rres.args.limit
        /\ \E q \in OrderedDesc(SelectSeq(rows,
                        LAMBDA r : Matches(r, rres.args.start, rres.args.end))) :
              rres.records = SkipTake(q, rres.args.offset, rres.args.limit)

\* ------------------------------------------------------------ artifacts
\* the call failed at a check before the comparison
GateFailure(d) ==
    /\ d.outcome = "DriftDetectionError"
    /\ d.kind \in {"reference_not_found", "reference_unreadable", "no_live_data",
                   "insufficient", "mismatch"}

\* C30 (as stated): a detect_drift call (every step is one) that fails at
\* a check before the comparison leaves both artifacts as they were, and
\* the artifacts present always come from the last run that passed all
\* checks.
C30_ArtifactsFromLastPassingRun ==
    [][/\ GateFailure(dres') => artifacts' = artifacts
       /\ artifacts'.html # "older"
       /\ artifacts'.json # "older"]_vars

\* C30 (amended): a call that fails at a check before the comparison
\* leaves both artifacts as they were; a successful call leaves both written
\* by itself; the summary is never newer than the report. (A call that
\* passes the checks and fails later may leave older artifacts in place.)
C30_GateFailureWritesNothing ==
    [][/\ GateFailure(dres') => artifacts' = artifacts
       /\ dres'.outcome = "ok" => artifacts' = [html |-> "current", json |-> "current"]
       /\ artifacts'.json = "current" => artifacts'.html = "current"]_vars

C30_Witness ==
    /\ GateFailure(dres)
    /\ artifacts = [html |-> "current", json |-> "current"]

====
